---- MODULE Spec2Model ----
(***************************************************************************)
(* Model of src/main.py: the NFT sales / mint tracker.  Two streams        *)
(* ("sales", "mints") are polled one after the other in an endless loop.   *)
(* Each stream keeps an anchor (last_seen_*_tx), a bounded FIFO dedup       *)
(* store (a deque plus a membership set) and an error counter.             *)
(***************************************************************************)
EXTENDS Integers, Sequences, FiniteSets, TLC

\* ------------------------------------------------------------------ bounds
MaxBatch == 3      \* longest batch a rich endpoint returns
FeedBoth == 1      \* longest batch when both endpoints return records
MaxCap == 2        \* largest MAX_DEDUP explored
MaxErr == 2        \* error counters are explored up to this value
MaxRestarts == 1   \* process restarts explored

\* ------------------------------------------------------- program constants
AGE_CUTOFF_MIN == 120
RIPPLE_EPOCH == 946684800

Streams == {"sales", "mints"}
Hashes == {"h1", "h2", "h3"}
None == "None"
\* the falsy arguments _remember may be given: None or the empty string
NoHash == ""

\* age_cutoff = timedelta(minutes=AGE_CUTOFF_MIN), in seconds
AgeCutoff == AGE_CUTOFF_MIN * 60

\* Unix time at which each event happened (0: the record has no time field).
\* In the first world h2 and h3 share an instant, in the second h1 has no time.
WorldTies == [h \in Hashes |->
                CASE h = "h1" -> RIPPLE_EPOCH + AgeCutoff
                  [] h = "h2" -> RIPPLE_EPOCH + 2 * AgeCutoff
                  [] h = "h3" -> RIPPLE_EPOCH + 2 * AgeCutoff]
WorldNoTime == [h \in Hashes |->
                  CASE h = "h1" -> 0
                    [] h = "h2" -> RIPPLE_EPOCH + AgeCutoff
                    [] h = "h3" -> RIPPLE_EPOCH + 2 * AgeCutoff]
Worlds == {WorldTies, WorldNoTime}

\* _now(): the instants at which a poll may run; at the first the events of
\* the latest instant are not older than the cutoff, at the second all are
Nows == {RIPPLE_EPOCH + 3 * AgeCutoff, RIPPLE_EPOCH + 4 * AgeCutoff}

RECURSIVE BatchesUpTo(_)
BatchesUpTo(n) == IF n = 0 THEN {<<>>}
                  ELSE BatchesUpTo(n - 1) \cup
                       {Append(b, h) : b \in {c \in BatchesUpTo(n - 1) : Len(c) = n - 1}, h \in Hashes}

Range(seq) == {seq[i] : i \in 1..Len(seq)}

VARIABLES
  max_dedup,        \* MAX_DEDUP
  allow_backfill,   \* ALLOW_BACKFILL
  feed,             \* environment: longest batch each endpoint returns
  occurred,         \* environment: the Unix time of each event
  delivery,         \* environment: the outcomes a request to Telegram may have
  last_seen,        \* last_seen_sale_tx / last_seen_mint_tx
  seen,             \* seen_sales / seen_mints (deque)
  seen_set,         \* seen_sales_set / seen_mints_set
  errors,           \* errors_sales / errors_mints
  pc,               \* position of the single thread: <<phase, stream>>
  batch,            \* local: the fetched list (sorted in a poll)
  new_events,       \* local: candidates still to be handled
  now,              \* local: now
  sent,             \* hashes passed to send_telegram_message by the running poll
  suppressed,       \* hashes the running poll dropped as too old
  undelivered,      \* hashes whose message the running poll failed to deliver
  call,             \* the latest direct _remember call: stream, hash, evicted hash
  watch,            \* observer of two successive polls of one batch
  notified_before,  \* hashes notified by the poll that ended in the restart
  history,          \* the hashes of the batch each stream was seeded from
  restarts          \* number of process restarts so far

cfg == <<max_dedup, allow_backfill, feed, occurred, delivery>>
locals == <<batch, new_events, now, sent, suppressed, undelivered>>
ghost == <<call, notified_before, restarts, history>>
vars == <<cfg, last_seen, seen, seen_set, errors, pc, locals, watch, ghost>>

\* The time field of the record as the endpoint returns it: acceptedAt of a
\* sale is Unix seconds, date of a mint is seconds since the Ripple epoch.
TimeField(s, h) ==
  IF occurred[h] = 0 THEN 0
  ELSE IF s = "sales" THEN occurred[h] ELSE occurred[h] - RIPPLE_EPOCH

\* ------------------------------------------------------------ dedup store
\* collections.deque.append with a maxlen
DequeAppend(dq, h, maxlen) ==
  IF maxlen = 0 THEN dq
  ELSE IF Len(dq) = maxlen THEN Append(Tail(dq), h)
  ELSE Append(dq, h)

\* mutant of Remember: s.add(h) is forgotten
RememberNoSet(dq, st, h, maxlen) ==
  IF h = None \/ h = NoHash \/ h \in st THEN [dq |-> dq, st |-> st, old |-> None]
  ELSE LET full == Len(dq) = maxlen /\ maxlen > 0
           dq1 == IF full THEN Tail(dq) ELSE dq
           st1 == IF full THEN st \ {Head(dq)} ELSE st
       IN [dq |-> DequeAppend(dq1, h, maxlen), st |-> st1,
           old |-> IF full THEN Head(dq) ELSE None]

\* mutant of Remember: dq.pop() instead of dq.popleft()
RememberEvictNewest(dq, st, h, maxlen) ==
  IF h = None \/ h = NoHash \/ h \in st THEN [dq |-> dq, st |-> st, old |-> None]
  ELSE LET full == Len(dq) = maxlen /\ maxlen > 0
           dq1 == IF full THEN SubSeq(dq, 1, Len(dq) - 1) ELSE dq
           st1 == IF full THEN st \ {dq[Len(dq)]} ELSE st
       IN [dq |-> DequeAppend(dq1, h, maxlen), st |-> st1 \cup {h},
           old |-> IF full THEN dq[Len(dq)] ELSE None]

\* _remember(dq, s, h): the new deque and set, and the evicted hash (old)
Remember(dq, st, h, maxlen) ==
  IF h = None \/ h = NoHash \/ h \in st THEN [dq |-> dq, st |-> st, old |-> None]
  ELSE LET full == Len(dq) = maxlen /\ maxlen > 0
           dq1 == IF full THEN Tail(dq) ELSE dq
           st1 == IF full THEN st \ {Head(dq)} ELSE st
       IN [dq |-> DequeAppend(dq1, h, maxlen), st |-> st1 \cup {h},
           old |-> IF full THEN Head(dq) ELSE None]

\* ------------------------------------------------------------ sorting
\* sort key: _t(s) for sales, t.get("date", 0) for mints
SortKey(s, h) == TimeField(s, h)

\* list.sort(key=...) is stable: equal keys keep their input order
Insert(sorted, h, s) ==
  LET p == Cardinality({i \in 1..Len(sorted) : SortKey(s, sorted[i]) <= SortKey(s, h)})
  IN SubSeq(sorted, 1, p) \o <<h>> \o SubSeq(sorted, p + 1, Len(sorted))

\* mutant of SortBatch: the sort is forgotten
SortBatchNone(b, s) == b

RECURSIVE SortBatch(_, _)
SortBatch(b, s) ==
  IF b = <<>> THEN <<>>
  ELSE Insert(SortBatch(SubSeq(b, 1, Len(b) - 1), s), b[Len(b)], s)

\* max(list, key=...) returns the first maximal element
RECURSIVE MaxFirst(_, _)
MaxFirst(b, s) ==
  IF Len(b) = 1 THEN b[1]
  ELSE LET m == MaxFirst(SubSeq(b, 1, Len(b) - 1), s)
       IN IF SortKey(s, b[Len(b)]) > SortKey(s, m) THEN b[Len(b)] ELSE m

\* mutant of NewEvents: the anchor is ignored
NewEventsAll(b, anchor) == b

\* mutant of NewEvents: the list is cut after the first anchor hit only
NewEventsFirst(b, anchor) ==
  LET hits == {i \in 1..Len(b) : b[i] = anchor}
  IN IF hits = {} THEN b
     ELSE SubSeq(b, (CHOOSE i \in hits : \A j \in hits : i <= j) + 1, Len(b))

\* mutant of NewEvents: nothing is new when the anchor is not in the batch
NewEventsNoneIfMissing(b, anchor) ==
  LET hits == {i \in 1..Len(b) : b[i] = anchor}
  IN IF hits = {} THEN <<>>
     ELSE SubSeq(b, (CHOOSE i \in hits : \A j \in hits : i >= j) + 1, Len(b))

\* the loop that builds new_events: restart the list at every anchor hit
RECURSIVE NewEvents(_, _)
NewEvents(b, anchor) ==
  IF b = <<>> THEN <<>>
  ELSE LET acc == NewEvents(SubSeq(b, 1, Len(b) - 1), anchor)
       IN IF b[Len(b)] = anchor THEN <<>> ELSE Append(acc, b[Len(b)])

\* ------------------------------------------------------------ age filter
\* event_dt: the Unix time of the event, NoTime (None) when the field is falsy
NoTime == 0 - 1
EventDt(s, h) ==
  IF TimeField(s, h) = 0 THEN NoTime
  ELSE IF s = "sales" THEN TimeField(s, h) ELSE TimeField(s, h) + RIPPLE_EPOCH

\* mutant of TooOld: an event whose age equals the cutoff counts as too old
TooOldAtCutoff(s, h, t) == EventDt(s, h) # NoTime /\ (t - EventDt(s, h)) >= AgeCutoff

\* mutant of TooOld: the operands of the subtraction are swapped
TooOldSwapped(s, h, t) == EventDt(s, h) # NoTime /\ (EventDt(s, h) - t) > AgeCutoff

TooOld(s, h, t) == EventDt(s, h) # NoTime /\ (t - EventDt(s, h)) > AgeCutoff

\* ------------------------------------------------------------ control
After(s) == IF s = "sales" THEN <<"poll", "mints">> ELSE <<"sleep", "main">>
AfterInit(s) == IF s = "sales" THEN <<"init", "mints">> ELSE <<"poll", "sales">>

\* what the endpoint of stream s may answer: a list of records or a failure
Responses(s) == BatchesUpTo(feed[s])
MayFail(s) == feed[s] > 0


\* ------------------------------------------------------------ observer
\* The observer follows one poll of a seeded stream and the next poll of the
\* same stream, for which the endpoint then returns the same batch again.
WatchOff == [stage |-> "off", s |-> None, b |-> <<>>, first |-> <<>>, rest |-> <<>>]
WatchIdle == [stage |-> "idle", s |-> None, b |-> <<>>, first |-> <<>>, rest |-> <<>>]

\* the observed stream is between its two polls
Between(s) == watch.stage = "between" /\ watch.s = s

WatchOnFetch(s, sorted, steady) ==
  IF watch.stage = "idle"
  THEN IF steady
       THEN {WatchIdle, [stage |-> "first", s |-> s, b |-> sorted, first |-> <<>>, rest |-> <<>>]}
       ELSE {WatchIdle}
  ELSE IF Between(s)
  THEN {[watch EXCEPT !.stage = "second"]}
  ELSE {watch}

WatchOnReturn(s) ==
  IF watch.stage = "first" /\ watch.s = s
  THEN [watch EXCEPT !.stage = "between", !.first = sent, !.rest = new_events]
  ELSE IF watch.stage = "second" /\ watch.s = s
  THEN WatchIdle
  ELSE watch

\* The history keeps, when it is on, the hashes of the batch a stream was
\* seeded from.
HistoryOff == [on |-> FALSE, seed |-> [s \in Streams |-> {}]]
HistoryOn == [on |-> TRUE, seed |-> [s \in Streams |-> {}]]

HistoryOnSeed(s, b) ==
  IF history.on THEN [history EXCEPT !.seed[s] = Range(b)] ELSE history

\* ------------------------------------------------------------ initial states
Fresh ==
  /\ last_seen = [s \in Streams |-> None]
  /\ seen = [s \in Streams |-> <<>>]
  /\ seen_set = [s \in Streams |-> {}]
  /\ errors = [s \in Streams |-> 0]
  /\ batch = <<>>
  /\ new_events = <<>>
  /\ now = 0
  /\ sent = <<>>
  /\ suppressed = <<>>
  /\ undelivered = {}
  /\ call = [s |-> None, h |-> None, old |-> None]
  /\ notified_before = [s \in Streams |-> {}]
  /\ restarts = 0

Config ==
  /\ max_dedup \in 0..MaxCap
  /\ allow_backfill \in BOOLEAN
  /\ occurred \in Worlds

\* both endpoints return records
Init ==
  /\ Config
  /\ Fresh
  /\ feed = [s \in Streams |-> FeedBoth]
  /\ pc = <<"init", "sales">>
  /\ watch = WatchOff
  /\ delivery = {TRUE}
  /\ history = HistoryOff

\* one endpoint returns records, the other an empty list
OneLive == \E live \in Streams : feed = [s \in Streams |-> IF s = live THEN MaxBatch ELSE 0]

InitStream ==
  /\ Config
  /\ Fresh
  /\ OneLive
  /\ pc = <<"init", "sales">>
  /\ watch = WatchOff
  /\ delivery = {TRUE}
  /\ history = HistoryOff

\* as InitStream, with the observer waiting
InitTwice ==
  /\ Config
  /\ Fresh
  /\ OneLive
  /\ pc = <<"init", "sales">>
  /\ watch = WatchIdle
  /\ delivery = {TRUE}
  /\ history = HistoryOff

\* as InitStream, with a sink that may refuse or lose a message
InitSink ==
  /\ Config
  /\ Fresh
  /\ OneLive
  /\ pc = <<"init", "sales">>
  /\ watch = WatchOff
  /\ delivery = BOOLEAN
  /\ history = HistoryOff

\* as InitStream, with the history of the seed batches kept
InitHistory ==
  /\ Config
  /\ Fresh
  /\ OneLive
  /\ pc = <<"init", "sales">>
  /\ watch = WatchOff
  /\ delivery = {TRUE}
  /\ history = HistoryOn

\* the dedup stores alone, driven by direct _remember calls
InitStore ==
  /\ Config
  /\ Fresh
  /\ feed = [s \in Streams |-> 0]
  /\ pc = <<"store", "main">>
  /\ watch = WatchOff
  /\ delivery = {TRUE}
  /\ history = HistoryOff

\* ------------------------------------------------------------ actions
\* module initialisation (sales) and init_mints()
InitFetch(s) ==
  /\ pc = <<"init", s>>
  /\ \/ /\ MayFail(s)
        /\ batch' = <<>>
        /\ UNCHANGED <<last_seen, seen, seen_set, history>>
     \/ \E resp \in Responses(s) :
          /\ batch' = resp
          /\ IF resp = <<>>
             THEN UNCHANGED <<last_seen, seen, seen_set, history>>
             ELSE LET head == MaxFirst(resp, s)
                      r == Remember(seen[s], seen_set[s], head, max_dedup)
                  IN /\ last_seen' = [last_seen EXCEPT ![s] = head]
                     /\ seen' = [seen EXCEPT ![s] = r.dq]
                     /\ seen_set' = [seen_set EXCEPT ![s] = r.st]
                     /\ history' = HistoryOnSeed(s, resp)
  /\ pc' = AfterInit(s)
  /\ UNCHANGED <<cfg, errors, new_events, now, sent, suppressed, undelivered, watch>>
  /\ UNCHANGED <<call, notified_before, restarts>>

\* mutant of FetchFail: the counter is set to one instead of incremented
FetchFailAssign(s) ==
  /\ pc = <<"poll", s>>
  /\ MayFail(s)
  /\ errors[s] < MaxErr
  /\ errors' = [errors EXCEPT ![s] = 1]
  /\ pc' = <<"backoff", s>>
  /\ ~Between(s)
  /\ UNCHANGED watch
  /\ UNCHANGED <<cfg, last_seen, seen, seen_set, locals, ghost>>

\* poll_*(): the request fails (status, timeout, exception)
FetchFail(s) ==
  /\ pc = <<"poll", s>>
  /\ MayFail(s)
  /\ errors[s] < MaxErr
  /\ errors' = [errors EXCEPT ![s] = @ + 1]
  /\ pc' = <<"backoff", s>>
  /\ ~Between(s)
  /\ UNCHANGED watch
  /\ UNCHANGED <<cfg, last_seen, seen, seen_set, locals, ghost>>

\* mutant of Fetch: a poll never seeds the anchor
FetchNoSeed(s) ==
  /\ pc = <<"poll", s>>
  /\ \E resp \in Responses(s) :
       LET sorted == SortBatch(resp, s) IN
       /\ Between(s) => sorted = watch.b
       /\ batch' = sorted
       /\ watch' \in WatchOnFetch(s, sorted, resp # <<>> /\ last_seen[s] # None)
       /\ IF resp = <<>>
          THEN /\ errors' = [errors EXCEPT ![s] = 0]
               /\ pc' = <<"ret", s>>
               /\ UNCHANGED <<last_seen, seen, seen_set, new_events, now, history>>
          ELSE IF last_seen[s] = None
          THEN /\ errors' = [errors EXCEPT ![s] = 0]
               /\ pc' = <<"ret", s>>
               /\ UNCHANGED <<last_seen, seen, seen_set, new_events, now, history>>
          ELSE /\ new_events' = NewEvents(sorted, last_seen[s])
               /\ now' \in Nows
               /\ pc' = <<"loop", s>>
               /\ UNCHANGED <<last_seen, seen, seen_set, errors, history>>
  /\ UNCHANGED <<cfg, sent, suppressed, undelivered, call, notified_before, restarts>>

\* poll_*(): the request succeeds; up to the end of the loop building new_events
Fetch(s) ==
  /\ pc = <<"poll", s>>
  /\ \E resp \in Responses(s) :
       LET sorted == SortBatch(resp, s) IN
       /\ Between(s) => sorted = watch.b
       /\ batch' = sorted
       /\ watch' \in WatchOnFetch(s, sorted, resp # <<>> /\ last_seen[s] # None)
       /\ IF resp = <<>>
          THEN /\ errors' = [errors EXCEPT ![s] = 0]
               /\ pc' = <<"ret", s>>
               /\ UNCHANGED <<last_seen, seen, seen_set, new_events, now, history>>
          ELSE IF last_seen[s] = None
          THEN LET head == sorted[Len(sorted)]
                   r == Remember(seen[s], seen_set[s], head, max_dedup)
               IN /\ last_seen' = [last_seen EXCEPT ![s] = head]
                  /\ seen' = [seen EXCEPT ![s] = r.dq]
                  /\ seen_set' = [seen_set EXCEPT ![s] = r.st]
                  /\ history' = HistoryOnSeed(s, sorted)
                  /\ errors' = [errors EXCEPT ![s] = 0]
                  /\ pc' = <<"ret", s>>
                  /\ UNCHANGED <<new_events, now>>
          ELSE /\ new_events' = NewEvents(sorted, last_seen[s])
               /\ now' \in Nows
               /\ pc' = <<"loop", s>>
               /\ UNCHANGED <<last_seen, seen, seen_set, errors, history>>
  /\ UNCHANGED <<cfg, sent, suppressed, undelivered, call, notified_before, restarts>>

\* mutant of Handle: the membership test of the loop is forgotten
HandleNoSkip(s) ==
  /\ pc = <<"loop", s>>
  /\ new_events # <<>>
  /\ LET h == Head(new_events)
         r == Remember(seen[s], seen_set[s], h, max_dedup)
     IN /\ last_seen' = [last_seen EXCEPT ![s] = h]
        /\ seen' = [seen EXCEPT ![s] = r.dq]
        /\ seen_set' = [seen_set EXCEPT ![s] = r.st]
        /\ IF TooOld(s, h, now) /\ ~allow_backfill
           THEN /\ suppressed' = Append(suppressed, h)
                /\ UNCHANGED <<sent, undelivered>>
           ELSE /\ sent' = Append(sent, h)
                /\ \E ok \in delivery :
                     undelivered' = IF ok THEN undelivered ELSE undelivered \cup {h}
                /\ UNCHANGED suppressed
  /\ new_events' = Tail(new_events)
  /\ UNCHANGED <<cfg, errors, pc, batch, now, watch, ghost>>

\* mutant of Handle: a candidate whose message was not delivered is neither
\* remembered nor made the anchor
HandleDropUndelivered(s) ==
  /\ pc = <<"loop", s>>
  /\ new_events # <<>>
  /\ LET h == Head(new_events)
         r == Remember(seen[s], seen_set[s], h, max_dedup)
     IN IF h \in seen_set[s]
        THEN UNCHANGED <<last_seen, seen, seen_set, sent, suppressed, undelivered>>
        ELSE IF TooOld(s, h, now) /\ ~allow_backfill
        THEN /\ last_seen' = [last_seen EXCEPT ![s] = h]
             /\ seen' = [seen EXCEPT ![s] = r.dq]
             /\ seen_set' = [seen_set EXCEPT ![s] = r.st]
             /\ suppressed' = Append(suppressed, h)
             /\ UNCHANGED <<sent, undelivered>>
        ELSE /\ sent' = Append(sent, h)
             /\ UNCHANGED suppressed
             /\ \E ok \in delivery :
                  IF ok
                  THEN /\ last_seen' = [last_seen EXCEPT ![s] = h]
                       /\ seen' = [seen EXCEPT ![s] = r.dq]
                       /\ seen_set' = [seen_set EXCEPT ![s] = r.st]
                       /\ UNCHANGED undelivered
                  ELSE /\ undelivered' = undelivered \cup {h}
                       /\ UNCHANGED <<last_seen, seen, seen_set>>
  /\ new_events' = Tail(new_events)
  /\ UNCHANGED <<cfg, errors, pc, batch, now, watch, ghost>>

\* one iteration of "for sale in new_events" that does not raise; whether the
\* message is delivered or not, send_telegram_message returns normally
Handle(s) ==
  /\ pc = <<"loop", s>>
  /\ new_events # <<>>
  /\ LET h == Head(new_events)
         r == Remember(seen[s], seen_set[s], h, max_dedup)
     IN IF h \in seen_set[s]
        THEN UNCHANGED <<last_seen, seen, seen_set, sent, suppressed, undelivered>>
        ELSE /\ last_seen' = [last_seen EXCEPT ![s] = h]
             /\ seen' = [seen EXCEPT ![s] = r.dq]
             /\ seen_set' = [seen_set EXCEPT ![s] = r.st]
             /\ IF TooOld(s, h, now) /\ ~allow_backfill
                THEN /\ suppressed' = Append(suppressed, h)
                     /\ UNCHANGED <<sent, undelivered>>
                ELSE /\ sent' = Append(sent, h)
                     /\ \E ok \in delivery :
                          undelivered' = IF ok THEN undelivered ELSE undelivered \cup {h}
                     /\ UNCHANGED suppressed
  /\ new_events' = Tail(new_events)
  /\ UNCHANGED <<cfg, errors, pc, batch, now, watch, ghost>>

\* one iteration that raises while the message is built (before the send)
HandleRaise(s) ==
  /\ pc = <<"loop", s>>
  /\ new_events # <<>>
  /\ Head(new_events) \notin seen_set[s]
  /\ ~(TooOld(s, Head(new_events), now) /\ ~allow_backfill)
  /\ errors[s] < MaxErr
  /\ errors' = [errors EXCEPT ![s] = @ + 1]
  /\ pc' = <<"backoff", s>>
  /\ UNCHANGED <<cfg, last_seen, seen, seen_set, locals, watch, ghost>>

\* mutant of LoopExit: the counter is not reset after the loop
LoopExitKeep(s) ==
  /\ pc = <<"loop", s>>
  /\ new_events = <<>>
  /\ pc' = <<"ret", s>>
  /\ UNCHANGED <<cfg, last_seen, seen, seen_set, errors, locals, watch, ghost>>

\* the loop is over: errors_* = 0
LoopExit(s) ==
  /\ pc = <<"loop", s>>
  /\ new_events = <<>>
  /\ errors' = [errors EXCEPT ![s] = 0]
  /\ pc' = <<"ret", s>>
  /\ UNCHANGED <<cfg, last_seen, seen, seen_set, locals, watch, ghost>>

\* the poll returns to the main loop: its locals are gone
Return(s) ==
  /\ pc = <<"ret", s>>
  /\ pc' = After(s)
  /\ batch' = <<>>
  /\ new_events' = <<>>
  /\ now' = 0
  /\ sent' = <<>>
  /\ suppressed' = <<>>
  /\ undelivered' = {}
  /\ watch' = WatchOnReturn(s)
  /\ UNCHANGED <<cfg, last_seen, seen, seen_set, errors, ghost>>

\* mutant of Backoff: a failed poll ends the cycle
BackoffAbort(s) ==
  /\ pc = <<"backoff", s>>
  /\ pc' = <<"sleep", "main">>
  /\ batch' = <<>>
  /\ new_events' = <<>>
  /\ now' = 0
  /\ sent' = <<>>
  /\ suppressed' = <<>>
  /\ undelivered' = {}
  /\ watch' = WatchOnReturn(s)
  /\ UNCHANGED <<cfg, last_seen, seen, seen_set, errors, ghost>>

\* _maybe_sleep(errors) in a failure path, then the poll returns
Backoff(s) ==
  /\ pc = <<"backoff", s>>
  /\ pc' = After(s)
  /\ batch' = <<>>
  /\ new_events' = <<>>
  /\ now' = 0
  /\ sent' = <<>>
  /\ suppressed' = <<>>
  /\ undelivered' = {}
  /\ watch' = WatchOnReturn(s)
  /\ UNCHANGED <<cfg, last_seen, seen, seen_set, errors, ghost>>

\* time.sleep(POLL_INTERVAL) at the end of a cycle
Sleep ==
  /\ pc = <<"sleep", "main">>
  /\ pc' = <<"poll", "sales">>
  /\ UNCHANGED <<cfg, last_seen, seen, seen_set, errors, locals, watch, ghost>>

\* the process is stopped as a poll that notified returns, and is started
\* again: the module's globals are created afresh
Restart(s) ==
  /\ pc = <<"ret", s>>
  /\ sent # <<>>
  /\ restarts < MaxRestarts
  /\ restarts' = restarts + 1
  /\ notified_before' = [notified_before EXCEPT ![s] = Range(sent)]
  /\ last_seen' = [x \in Streams |-> None]
  /\ seen' = [x \in Streams |-> <<>>]
  /\ seen_set' = [x \in Streams |-> {}]
  /\ errors' = [x \in Streams |-> 0]
  /\ pc' = <<"init", "sales">>
  /\ batch' = <<>>
  /\ new_events' = <<>>
  /\ now' = 0
  /\ sent' = <<>>
  /\ suppressed' = <<>>
  /\ undelivered' = {}
  /\ UNCHANGED <<cfg, call, watch, history>>

\* a direct call _remember(seen_*, seen_*_set, h)
RememberCall(s) ==
  /\ pc = <<"store", "main">>
  /\ \E h \in Hashes \cup {NoHash, None} :
       LET r == Remember(seen[s], seen_set[s], h, max_dedup)
       IN /\ seen' = [seen EXCEPT ![s] = r.dq]
          /\ seen_set' = [seen_set EXCEPT ![s] = r.st]
          /\ call' = [s |-> s, h |-> h, old |-> r.old]
  /\ UNCHANGED <<cfg, last_seen, errors, pc, locals, watch, notified_before, restarts, history>>

Step ==
  \E s \in Streams :
    \/ InitFetch(s)
    \/ FetchFail(s)
    \/ Fetch(s)
    \/ Handle(s)
    \/ HandleRaise(s)
    \/ LoopExit(s)
    \/ Return(s)
    \/ Backoff(s)

Next == Step \/ Sleep

NextRestart == Next \/ \E s \in Streams : Restart(s)

NextStore == \E s \in Streams : RememberCall(s)

\* the program with both endpoints returning records
Spec == Init /\ [][Next]_vars

\* the program with one endpoint returning records
SpecStream == InitStream /\ [][Next]_vars

\* SpecStream with the observer of two successive polls
SpecTwice == InitTwice /\ [][Next]_vars

\* the program with one endpoint returning records and an unreliable sink
SpecSink == InitSink /\ [][Next]_vars

\* the program with one endpoint returning records, with the seed batches kept
SpecHistory == InitHistory /\ [][Next]_vars

\* SpecHistory for a process that is never stopped: the single thread always
\* takes its next step
SpecLive == InitHistory /\ [][Next]_vars /\ WF_vars(Next)

\* the program with a restart of the process
SpecRestart == Init /\ [][NextRestart]_vars

\* the dedup stores under arbitrary _remember calls
SpecStore == InitStore /\ [][NextStore]_vars

TypeOK ==
  /\ max_dedup \in 0..MaxCap
  /\ allow_backfill \in BOOLEAN
  /\ last_seen \in [Streams -> Hashes \cup {None}]
  /\ \A s \in Streams : seen[s] \in Seq(Hashes) /\ seen_set[s] \subseteq Hashes
  /\ errors \in [Streams -> 0..MaxErr]

\* ------------------------------------------------------------ properties
PollPhases == {"poll", "loop", "backoff", "ret"}

NoDup(seq) == \A i, j \in 1..Len(seq) : i # j => seq[i] # seq[j]

\* the age of the event at instant t exceeds the cutoff, by its Unix time
TrulyOld(h, t) == occurred[h] # 0 /\ t - occurred[h] > AgeCutoff

\* a fetch (initialisation or poll) of a stream without anchor returns records
SeedStep(s) ==
  /\ pc[2] = s
  /\ pc[1] \in {"init", "poll"}
  /\ pc' # pc
  /\ last_seen[s] = None
  /\ batch' # <<>>

\* C1: a fetch that returns a non-empty batch while the anchor is absent calls
\* the notification sink for nothing, sets the anchor to the hash of an event
\* of the batch with the greatest event time, and that hash is remembered.
C1_Seeding ==
  [][\A s \in Streams : SeedStep(s) =>
       /\ sent = <<>> /\ sent' = <<>>
       /\ last_seen'[s] \in Range(batch')
       /\ \A h \in Range(batch') : occurred[h] <= occurred[last_seen'[s]]
       /\ last_seen'[s] \in seen_set'[s]]_vars

\* a poll has just seeded the anchor from a batch of events of different times
C1_Witness ==
  \E s \in Streams :
    /\ pc = <<"ret", s>>
    /\ now = 0
    /\ Len(batch) >= 2
    /\ occurred[batch[1]] < occurred[batch[Len(batch)]]
    /\ last_seen[s] = batch[Len(batch)]
    /\ seen_set[s] = {last_seen[s]}
    /\ sent = <<>>

\* C2: when the anchor occurs in the sorted batch and k is its last position,
\* the candidate list is the events at positions k+1..end, and the batch (so
\* the candidates) is in non-decreasing order of event time.
C2_Candidates ==
  [][\A s \in Streams :
       (pc = <<"poll", s>> /\ pc' = <<"loop", s>> /\ last_seen[s] \in Range(batch')) =>
         LET k == CHOOSE i \in 1..Len(batch') :
                    /\ batch'[i] = last_seen[s]
                    /\ \A j \in (i + 1)..Len(batch') : batch'[j] # last_seen[s]
         IN /\ new_events' = SubSeq(batch', k + 1, Len(batch'))
            /\ \A i, j \in 1..Len(batch') :
                 i < j => occurred[batch'[i]] <= occurred[batch'[j]]]_vars

\* a poll has just built a non-empty candidate list from a batch that holds
\* the anchor twice
C2_Witness ==
  \E s \in Streams :
    /\ pc = <<"loop", s>>
    /\ sent = <<>> /\ suppressed = <<>>
    /\ new_events # <<>>
    /\ \E i, k \in 1..Len(batch) :
         /\ i < k
         /\ batch[i] = last_seen[s]
         /\ batch[k] = last_seen[s]
         /\ new_events = SubSeq(batch, k + 1, Len(batch))

\* the first candidate of a poll whose batch does not hold the anchor is about
\* to be handled (only then is the candidate list the whole batch)
FirstOfUnanchored(s) ==
  /\ pc = <<"loop", s>>
  /\ batch # <<>>
  /\ new_events = batch

C4_Suppression ==
  [][\A s \in Streams :
       (/\ pc = <<"loop", s>>
        /\ new_events # <<>>
        /\ Head(new_events) \notin seen_set[s]
        /\ TrulyOld(Head(new_events), now)
        /\ ~allow_backfill) =>
         /\ sent' = sent
         /\ Head(new_events) \in seen_set'[s]
         /\ last_seen'[s] = Head(new_events)]_vars

\* a poll has suppressed a candidate, which is now the anchor
C4_Witness ==
  \E s \in Streams :
    /\ pc = <<"loop", s>>
    /\ suppressed # <<>>
    /\ sent = <<>>
    /\ last_seen[s] = suppressed[Len(suppressed)]
    /\ last_seen[s] \in seen_set[s]
    /\ TrulyOld(last_seen[s], now)

\* C5 as claimed: two successive polls of one batch pass no hash to the sink
\* twice, whatever the capacity and the batch.
C5_Idempotent ==
  watch.stage = "second" => NoDup(watch.first \o sent)

\* C5 amended: two successive polls of a batch that holds at most MAX_DEDUP
\* distinct hashes pass no hash to the sink twice.
C5_IdempotentWithinCapacity ==
  (watch.stage = "second" /\ Cardinality(Range(watch.b)) <= max_dedup)
    => NoDup(watch.first \o sent)

\* the second poll of a batch within the capacity is over; the first notified
C5_Witness ==
  /\ watch.stage = "second"
  /\ pc = <<"ret", watch.s>>
  /\ Cardinality(Range(watch.b)) <= max_dedup
  /\ Len(watch.b) >= 2
  /\ watch.first # <<>>

\* C6 as claimed: neither the deque nor the membership set ever holds more
\* than MAX_DEDUP hashes, and a hash that leaves the store is the oldest one.
C6_CapacityAndFifo ==
  [][\A s \in Streams :
       /\ Len(seen'[s]) <= max_dedup
       /\ Cardinality(seen_set'[s]) <= max_dedup
       /\ \A h \in seen_set[s] \ seen_set'[s] : h = Head(seen[s])]_vars

\* C7: after _remember(dq, s, h) the hash is a member, and a member stops
\* being one only when it is the oldest entry of a full store and a new hash
\* is remembered.
C7_RememberedUntilEvicted ==
  [][\A s \in Streams :
       /\ (call'.s = s /\ call'.h \in Hashes) => call'.h \in seen_set'[s]
       /\ \A h \in seen_set[s] \ seen_set'[s] :
            /\ max_dedup > 0
            /\ Len(seen[s]) = max_dedup
            /\ h = Head(seen[s])
            /\ call'.s = s
            /\ call'.h \in Hashes \ seen_set[s]]_vars

\* a call has evicted the oldest hash of a full store of two
C7_Witness ==
  /\ call.s \in Streams
  /\ call.old \in Hashes
  /\ call.old \notin seen_set[call.s]
  /\ call.h \in seen_set[call.s]
  /\ Len(seen[call.s]) >= 2

\* C8 as claimed: after a restart no hash that was notified before it is
\* passed to the sink again.
C8_NoRenotifyAfterRestart ==
  \A s \in Streams :
    (restarts > 0 /\ pc[2] = s) => Range(sent) \cap notified_before[s] = {}

\* C9: a step of one stream's poll leaves the other stream's anchor, store
\* and error counter alone, and the step that ends poll_sales, however it
\* ends, leads to poll_mints.
C9_Isolation ==
  [][\A s \in Streams :
       (pc[2] = s /\ pc[1] \in PollPhases) =>
         /\ \A o \in Streams \ {s} :
              /\ last_seen'[o] = last_seen[o]
              /\ seen'[o] = seen[o]
              /\ seen_set'[o] = seen_set[o]
              /\ errors'[o] = errors[o]
         /\ (s = "sales" /\ pc'[2] # "sales") => pc' = <<"poll", "mints">>]_vars

\* poll_sales has failed twice in a row and poll_mints, whose stream is
\* seeded, is the next to run
C9_Witness ==
  /\ pc = <<"poll", "mints">>
  /\ errors["sales"] >= 2
  /\ last_seen["mints"] # None
  /\ seen_set["mints"] # {}

\* C10: a failed fetch changes no anchor and no store, notifies nothing and
\* adds exactly one to the error counter of its stream.
C10_FetchFailure ==
  [][\A s \in Streams :
       (pc = <<"poll", s>> /\ pc' = <<"backoff", s>>) =>
         /\ last_seen' = last_seen
         /\ seen' = seen
         /\ seen_set' = seen_set
         /\ sent = <<>> /\ sent' = <<>>
         /\ errors'[s] = errors[s] + 1
         /\ \A o \in Streams \ {s} : errors'[o] = errors[o]]_vars

\* the fetch of a seeded stream has failed for the second time in a row
C10_Witness ==
  \E s \in Streams :
    /\ pc = <<"backoff", s>>
    /\ batch = <<>>
    /\ errors[s] >= 2
    /\ last_seen[s] # None
    /\ seen_set[s] # {}

\* C11 as claimed: when handling a candidate raises, only that candidate is
\* left out: by the end of the poll every later candidate of the batch (with
\* another hash) has been handled, so its hash is in the dedup store.
C11_MalformedSkipped ==
  \A s \in Streams :
    (pc = <<"backoff", s>> /\ batch # <<>>) =>
      \A i \in 2..Len(new_events) :
        new_events[i] # new_events[1] => new_events[i] \in seen_set[s]

\* C12: when the message of a candidate is not delivered, the step that
\* handles the candidate still remembers its hash and makes it the anchor, and
\* no step passes to the sink a hash that is in the dedup store, so the hash
\* is not notified again while it remains there.
C12_DeliveryFailure ==
  [][\A s \in Streams :
       /\ (pc = <<"loop", s>> /\ undelivered' # undelivered) =>
            /\ undelivered' = undelivered \cup {Head(new_events)}
            /\ Head(new_events) \in seen_set'[s]
            /\ last_seen'[s] = Head(new_events)
            /\ new_events' = Tail(new_events)
       /\ (pc = <<"loop", s>> /\ sent' # sent) =>
            Head(new_events) \notin seen_set[s]]_vars

\* the message of a candidate was not delivered; its hash is the anchor, is in
\* the store and comes again among the candidates still to be handled
C12_Witness ==
  \E s \in Streams :
    /\ pc = <<"loop", s>>
    /\ last_seen[s] \in undelivered
    /\ last_seen[s] \in seen_set[s]
    /\ last_seen[s] \in Range(new_events)

\* C13: an iteration that handles a candidate which is not in the dedup store
\* suppresses it if and only if the event has a time, its age at the instant
\* of the poll is strictly greater than the cutoff and backfill is not
\* allowed; in every other case the candidate is passed to the sink.
C13_EmitOrSuppress ==
  [][\A s \in Streams :
       (/\ pc = <<"loop", s>>
        /\ pc' = pc
        /\ new_events # <<>>
        /\ Head(new_events) \notin seen_set[s]) =>
         LET h == Head(new_events)
         IN IF occurred[h] # 0 /\ now - occurred[h] > AgeCutoff /\ ~allow_backfill
            THEN suppressed' = Append(suppressed, h) /\ sent' = sent
            ELSE sent' = Append(sent, h) /\ suppressed' = suppressed]_vars

\* without backfill one poll has suppressed a candidate and has passed to the
\* sink a candidate whose age is exactly the cutoff
C13_Witness ==
  \E s \in Streams :
    /\ pc = <<"loop", s>>
    /\ ~allow_backfill
    /\ suppressed # <<>>
    /\ \E i \in 1..Len(sent) : now - occurred[sent[i]] = AgeCutoff

\* the candidate list c of the next poll resumes the failed poll: it ends with
\* the candidates the failed poll left (rest), and whatever comes before them
\* is in the dedup store st, so is skipped
ResumesAt(c, rest, st) ==
  \E j \in 1..(Len(c) + 1) :
    /\ SubSeq(c, j, Len(c)) = rest
    /\ \A m \in 1..(j - 1) : c[m] \in st

\* an iteration of the loop moves the anchor to the candidate it has handled
\* and an iteration that skips or raises leaves the anchor alone
AnchorFollowsHandled(s) ==
  pc = <<"loop", s>> =>
    last_seen'[s] = IF sent' # sent \/ suppressed' # suppressed
                    THEN Head(new_events) ELSE last_seen[s]

\* C14 as claimed: when a poll fails at a candidate the anchor is the last
\* handled candidate (or unchanged), the next poll of the same batch takes up
\* the candidates at the failed one, and notifies no hash the failed poll
\* notified, whatever the batch.
C14_Resume ==
  [][\A s \in Streams :
       /\ AnchorFollowsHandled(s)
       /\ (Between(s) /\ watch.rest # <<>> /\ pc' = <<"loop", s>>) =>
            ResumesAt(new_events', watch.rest, seen_set[s])
       /\ (watch.stage = "second" /\ watch.s = s /\ watch.rest # <<>>) =>
            Range(sent') \cap Range(watch.first) = {}]_vars

\* C14 amended: as claimed, for a batch that holds no hash twice.
C14_ResumeNoRepeat ==
  [][\A s \in Streams :
       /\ AnchorFollowsHandled(s)
       /\ (Between(s) /\ watch.rest # <<>> /\ NoDup(watch.b) /\ pc' = <<"loop", s>>) =>
            ResumesAt(new_events', watch.rest, seen_set[s])
       /\ (watch.stage = "second" /\ watch.s = s /\ watch.rest # <<>> /\ NoDup(watch.b)) =>
            Range(sent') \cap Range(watch.first) = {}]_vars

\* a poll notified a candidate and failed at a later one; the next poll of the
\* same batch, which holds no hash twice, has notified the candidates left
C14_Witness ==
  /\ watch.stage = "second"
  /\ pc = <<"ret", watch.s>>
  /\ NoDup(watch.b)
  /\ watch.first # <<>>
  /\ watch.rest # <<>>
  /\ sent = watch.rest

\* a poll's fetch of stream s succeeds
FetchOk(s) == pc = <<"poll", s>> /\ pc' # pc /\ pc'[1] # "backoff"

\* C15 as claimed: the first successful fetch of a poll makes an absent anchor
\* present, whatever the batch.
C15_SeededOnFirstFetch ==
  [][\A s \in Streams : (FetchOk(s) /\ last_seen[s] = None) => last_seen'[s] # None]_vars

\* C15 amended: a successful fetch leaves an absent anchor absent when the
\* batch is empty and makes it present when the batch is not; a present
\* anchor is never absent again, and a fetch of a non-empty batch of a seeded
\* stream goes on to the candidates, leaving anchor and store as they are.
C15_SeededOnFirstBatch ==
  [][\A s \in Streams :
       /\ (FetchOk(s) /\ last_seen[s] = None) =>
            /\ (last_seen'[s] # None) = (batch' # <<>>)
            /\ pc' = <<"ret", s>>
       /\ last_seen[s] # None => last_seen'[s] # None
       /\ (FetchOk(s) /\ last_seen[s] # None /\ batch' # <<>>) =>
            /\ pc' = <<"loop", s>>
            /\ new_events' = NewEvents(batch', last_seen[s])
            /\ last_seen'[s] = last_seen[s]
            /\ seen'[s] = seen[s]
            /\ seen_set'[s] = seen_set[s]]_vars

\* a seeded stream whose store holds the anchor alone has fetched a batch of
\* three events, and the event after the anchor is the candidate
C15_Witness ==
  \E s \in Streams :
    /\ pc = <<"loop", s>>
    /\ seen_set[s] = {last_seen[s]}
    /\ Len(new_events) = 1
    /\ new_events[1] \notin seen_set[s]
    /\ Len(batch) = 3
    /\ sent = <<>> /\ suppressed = <<>>

\* C16 as claimed: after every _remember the membership set of a stream is the
\* set of hashes in its deque, the deque holds no hash twice, and a call with
\* a hash that is present, or with an empty hash, changes neither of them.
C16_LookupAgrees ==
  [][\A s \in Streams :
       /\ seen_set'[s] = Range(seen'[s])
       /\ NoDup(seen'[s])
       /\ (call'.s = s /\ (call'.h \in seen_set[s] \/ call'.h \in {NoHash, None})) =>
            (seen'[s] = seen[s] /\ seen_set'[s] = seen_set[s])]_vars

\* C17: the error counters start at 0; the step that ends a poll of a stream
\* in failure adds one to the stream's counter, the step that ends it in
\* success (empty batch, seeding, or the loop run to its end) sets it to 0,
\* and no other step changes it: after every poll the counter is the number
\* of failed polls of the stream since its last successful one.
C17_ErrorCounter ==
  /\ \A s \in Streams : errors[s] = 0
  /\ [][\A s \in Streams :
          IF pc[2] = s /\ pc[1] \in {"poll", "loop"} /\ pc' # pc
          THEN \/ pc' = <<"backoff", s>> /\ errors'[s] = errors[s] + 1
               \/ pc' = <<"ret", s>> /\ errors'[s] = 0
               \/ pc' = <<"loop", s>> /\ errors'[s] = errors[s]
          ELSE errors'[s] = errors[s]]_vars

\* a poll that follows a failed poll of the stream has notified one candidate
\* and failed at the next: the counter is 2
C17_Witness ==
  \E s \in Streams :
    /\ pc = <<"backoff", s>>
    /\ sent # <<>>
    /\ new_events # <<>>
    /\ errors[s] = 2

\* C18 as claimed: no poll passes to the sink a hash of the batch its stream
\* was seeded from.
C18_HistoryNotNotified ==
  \A s \in Streams : pc[2] = s => Range(sent) \cap history.seed[s] = {}

\* C19: a step that passes a hash to the sink is an iteration of the loop on
\* a candidate that is not in the dedup store, and after the step the hash is
\* in the store and is the anchor; so a hash is notified again only after it
\* has left the store.
C19_AtMostOnceWhileRemembered ==
  [][\A s \in Streams :
       (pc[2] = s /\ sent' # sent /\ sent' # <<>>) =>
         /\ pc = <<"loop", s>>
         /\ new_events # <<>>
         /\ sent' = Append(sent, Head(new_events))
         /\ Head(new_events) \notin seen_set[s]
         /\ Head(new_events) \in seen_set'[s]
         /\ last_seen'[s] = Head(new_events)]_vars

\* with a capacity of at least 1 one poll has notified a hash twice (it was
\* evicted in between); the hash notified last is the anchor and in the store
C19_Witness ==
  \E s \in Streams :
    /\ pc = <<"loop", s>>
    /\ max_dedup >= 1
    /\ \E i, j \in 1..Len(sent) : i < j /\ sent[i] = sent[j]
    /\ last_seen[s] = sent[Len(sent)]
    /\ last_seen[s] \in seen_set[s]

\* a poll of stream s has run to its end on a batch that holds h, and h was
\* not in the batch the stream was seeded from
NewEventPolled(s, h) ==
  /\ pc = <<"ret", s>>
  /\ h \in Range(batch)
  /\ h \notin history.seed[s]

\* C20 as claimed: an event that is not of the seed batch and that the polls
\* of a seeded stream, running to their end, fetch again and again is
\* eventually handled, so that its hash is in the dedup store.
C20_NoEventLost ==
  \A s \in Streams : \A h \in Hashes :
    []<>NewEventPolled(s, h) => <>(h \in seen_set[s])

====
